---- MODULE Spec2Model ----
(***************************************************************************)
(* docker-monitor (src/app.py): a poll loop that lists containers, nodes   *)
(* or services through the docker client, classifies each item and shows   *)
(* its status on a Blinkt! strip; SIGINT/SIGTERM run terminate().          *)
(*                                                                         *)
(* The model starts in main() after the two signal.signal calls and the    *)
(* argument parsing (lines 148-155) and follows the main thread step by    *)
(* step.  A signal handler runs in the main thread between two of its      *)
(* steps; the SystemExit that sys.exit(0) raises then unwinds from the     *)
(* statement the main thread was executing.                                *)
(***************************************************************************)
EXTENDS Integers, Sequences, FiniteSets, TLC

(* ------------------------------ bounds -------------------------------- *)
\* number of pixels of the strip (blinkt.NUM_PIXELS, 8 on the real board)
NumPixels == 2
\* longest list the provider returns for containers and nodes
MaxItems == 3
\* longest list the provider returns for services
MaxServices == 1
\* longest task list of one service
MaxTasks == 2
\* largest declared replica count of one service
MaxReplicas == 1
\* a helper is called again only while its self.states is no longer than this
MaxHistory == 1

(* ------------------------- the provider's data ------------------------ *)
\* lifecycle strings of a container; "created" is one the palette lacks
ContainerStatuses == {"running", "paused", "exited", "created"}
\* membership states of a node; "unknown" is one the palette lacks
NodeStates == {"ready", "down", "unknown"}
\* states of a service task
TaskStates == {"running", "shutdown"}

Modules == {"containers", "nodes", "services"}
Signals == {"SIGINT", "SIGTERM"}

SeqsUpTo(S, n) == UNION {[1..k -> S] : k \in 0..n}

\* The lists the three listing calls can return.  The i-th resource of a
\* list carries the name (or id) i.
ContainerLists ==
    {[i \in 1..Len(s) |-> [name |-> i, status |-> s[i]]] :
        s \in SeqsUpTo(ContainerStatuses, MaxItems)}

NodeLists ==
    {[i \in 1..Len(s) |-> [id |-> i, state |-> s[i]]] :
        s \in SeqsUpTo(NodeStates, MaxItems)}

Services ==
    [replicas : 0..MaxReplicas, tasks : SeqsUpTo(TaskStates, MaxTasks)]

ServiceLists ==
    {[i \in 1..Len(s) |-> [name |-> i, replicas |-> s[i].replicas, tasks |-> s[i].tasks]] :
        s \in SeqsUpTo(Services, MaxServices)}

ProviderLists(m) ==
    CASE m = "containers" -> ContainerLists
      [] m = "nodes"      -> NodeLists
      [] m = "services"   -> ServiceLists

\* What a listing call of the client can do: return a list, or raise.
Returns(l) == [exc |-> "none", list |-> l]
Raises(e) == [exc |-> e, list |-> <<>>]

ClientOutcomes(m) == {Returns(l) : l \in ProviderLists(m)} \cup {Raises("APIError")}

(* ------------------------------ BlinktHelper -------------------------- *)
\* brightness is kept in tenths: 0.6 is 6
Pixel(r, g, b, brightness) == [r |-> r, g |-> g, b |-> b, brightness |-> brightness]

colors ==
    [ initialize   |-> Pixel(0, 0, 255, 6),
      updating     |-> Pixel(0, 0, 255, 6),
      completed    |-> Pixel(0, 255, 0, 2),
      running      |-> Pixel(0, 255, 0, 2),
      ready        |-> Pixel(0, 255, 0, 2),
      disconnected |-> Pixel(255, 0, 0, 8),
      paused       |-> Pixel(255, 136, 0, 4),
      warning      |-> Pixel(255, 136, 0, 4),
      down         |-> Pixel(255, 0, 0, 8),
      exited       |-> Pixel(255, 0, 0, 8),
      stopped      |-> Pixel(255, 0, 0, 8) ]

Off == Pixel(0, 0, 0, 0)

Positions == 0..(NumPixels - 1)

\* reset_lights that forgets to clear
reset_lights_keep(hw, s) == s

\* blinkt.set_all(0, 0, 0, 0); blinkt.show()
reset_lights(hw, s) == IF hw THEN [p \in Positions |-> Off] ELSE s

\* set_light that drops a write past the end of the strip
set_light_nowrap(hw, s, position, status) ==
    IF hw /\ position < NumPixels THEN [s EXCEPT ![position] = colors[status]] ELSE s

\* blinkt.set_pixel(position % NUM_PIXELS, colors[status]...); blinkt.show()
set_light(hw, s, position, status) ==
    IF hw THEN [s EXCEPT ![position % NumPixels] = colors[status]] ELSE s

\* colors[status] raises KeyError; it is evaluated only when BLINKT
set_light_raises(hw, status) == hw /\ status \notin DOMAIN colors

\* blinkt.set_all(colors[status]...); blinkt.show()
set_all(hw, s, status) == IF hw THEN [p \in Positions |-> colors[status]] ELSE s

(* ------------------------------ the helpers --------------------------- *)
\* get_items without the try/except
ContainerHelper_get_items_noexcept(outcome) == outcome

\* try: return self.client.containers.list(all=True) / except: return []
\* The bare except catches every exception, SystemExit included.
ContainerHelper_get_items(outcome) ==
    IF outcome.exc # "none" THEN Returns(<<>>) ELSE outcome

\* get_items wrapped in the containers' try/except
NodeHelper_get_items_except(outcome) ==
    IF outcome.exc # "none" THEN Returns(<<>>) ELSE outcome

\* return self.client.nodes.list()
NodeHelper_get_items(outcome) == outcome

\* return self.client.services.list()
ServiceHelper_get_items(outcome) == outcome

get_items(m, outcome) ==
    CASE m = "containers" -> ContainerHelper_get_items(outcome)
      [] m = "nodes"      -> NodeHelper_get_items(outcome)
      [] m = "services"   -> ServiceHelper_get_items(outcome)

ContainerHelper_get_status(item) == [name |-> item.name, status |-> item.status]

NodeHelper_get_status(item) == [name |-> item.id, status |-> item.state]

\* the loop over tasks: nbTasks counts those whose state is 'running'
RECURSIVE CountRunning(_, _)
CountRunning(tasks, nbTasks) ==
    IF tasks = <<>> THEN nbTasks
    ELSE IF Head(tasks) # "running"
         THEN CountRunning(Tail(tasks), nbTasks)
         ELSE CountRunning(Tail(tasks), nbTasks + 1)

\* get_status that accepts more running tasks than replicas
ServiceHelper_get_status_atleast(item) ==
    [name |-> item.name,
     status |-> IF CountRunning(item.tasks, 0) >= item.replicas THEN "running" ELSE "warning"]

ServiceHelper_get_status(item) ==
    [name |-> item.name,
     status |-> IF CountRunning(item.tasks, 0) = item.replicas THEN "running" ELSE "warning"]

get_status(m, item) ==
    CASE m = "containers" -> ContainerHelper_get_status(item)
      [] m = "nodes"      -> NodeHelper_get_status(item)
      [] m = "services"   -> ServiceHelper_get_status(item)

(* ------------------------------ signals ------------------------------- *)
\* a main() that installs terminate for SIGINT only
Handlers_sigint_only == [s \in Signals |-> IF s = "SIGINT" THEN "terminate" ELSE "SIG_DFL"]

\* signal.signal(signal.SIGINT, terminate); signal.signal(signal.SIGTERM, terminate)
Handlers == [s \in Signals |-> "terminate"]

(* ------------------------------ state --------------------------------- *)
VARIABLES
    pc,             \* where the main thread is
    BLINKT,         \* the Blinkt! board is plugged in (import blinkt succeeded)
    module,         \* args.monitor
    strip,          \* what the strip shows, per position
    items,          \* DockerHelper.monitor: items
    position,       \* DockerHelper.monitor: position
    states,         \* the helper's self.states
    exit,           \* <<>> while the process runs, <<code>> once it has ended
    sig,            \* history: the last signal delivered, or "none"
    interruptedAt,  \* history: the pc at which that signal arrived, or "none"
    failed,         \* history: the listing call of this cycle raised
    stale,          \* history: the strip had a lit position when this cycle started
    frame,          \* history: the strip as the initialisation or the last completed
                    \* render pass left it; <<>> while a render pass is under way
    earlier         \* history: an earlier poll cycle returned a non-empty result

vars == <<pc, BLINKT, module, strip, items, position, states, exit, sig,
          interruptedAt, failed, stale, frame, earlier>>

Alive == {"main", "settle", "loop", "get_items", "reset", "render", "sleep"}

AllOff == \A p \in Positions : strip[p] = Off

Init ==
    /\ pc = "main"
    /\ BLINKT \in BOOLEAN
    /\ module \in Modules
    /\ strip = [p \in Positions |-> Off]
    /\ items = <<>>
    /\ position = 0
    /\ states = <<>>
    /\ exit = <<>>
    /\ sig = "none"
    /\ interruptedAt = "none"
    /\ failed = FALSE
    /\ stale = FALSE
    /\ frame = strip
    /\ earlier = FALSE

\* An exception nobody catches ends the process: SystemExit(0) quietly with
\* code 0, anything else with a traceback and code 1.
Uncaught(exc) ==
    /\ pc' = IF exc = "SystemExit" THEN "exited" ELSE "crashed"
    /\ exit' = IF exc = "SystemExit" THEN <<0>> ELSE <<1>>

\* get_items has returned l: lines 65-66
Returned(l) ==
    /\ items' = l
    /\ position' = 0
    /\ pc' = "reset"
    /\ exit' = exit

\* main without the time.sleep(5): the loop starts right after set_all
Initialize_nosettle ==
    /\ pc = "main"
    /\ strip' = set_all(BLINKT, strip, "initialize")
    /\ pc' = "loop"
    /\ frame' = strip'
    /\ UNCHANGED <<BLINKT, module, items, position, states, exit, sig,
                   interruptedAt, failed, stale, earlier>>

\* main, line 158: BlinktHelper.set_all("initialize"), then time.sleep(5)
Initialize ==
    /\ pc = "main"
    /\ strip' = set_all(BLINKT, strip, "initialize")
    /\ pc' = "settle"
    /\ frame' = strip'
    /\ UNCHANGED <<BLINKT, module, items, position, states, exit, sig,
                   interruptedAt, failed, stale, earlier>>

\* main, line 159: time.sleep(5) returns
SettleDone ==
    /\ pc = "settle"
    /\ pc' = "loop"
    /\ UNCHANGED <<BLINKT, module, strip, items, position, states, exit, sig,
                   interruptedAt, failed, stale, frame, earlier>>

\* a loop that builds the HealthManager once and reuses its helper, whose
\* self.states is then never emptied
StartCycle_keepstates ==
    /\ pc = "loop"
    /\ items' = <<>>
    /\ position' = 0
    /\ failed' = FALSE
    /\ stale' = ~AllOff
    /\ earlier' = (earlier \/ states # <<>>)
    /\ pc' = "get_items"
    /\ UNCHANGED <<BLINKT, module, strip, states, exit, sig, interruptedAt, frame>>

\* a monitor() that calls reset_lights() before get_items()
StartCycle_clearfirst ==
    /\ pc = "loop"
    /\ states' = <<>>
    /\ items' = <<>>
    /\ position' = 0
    /\ failed' = FALSE
    /\ stale' = ~AllOff
    /\ earlier' = (earlier \/ states # <<>>)
    /\ strip' = reset_lights(BLINKT, strip)
    /\ pc' = "get_items"
    /\ UNCHANGED <<BLINKT, module, exit, sig, interruptedAt, frame>>

\* main, lines 163-164: a new HealthManager with new helpers (self.states = []),
\* HealthManager.monitor picks the helper and calls its monitor(), which calls
\* get_items()
StartCycle ==
    /\ pc = "loop"
    /\ states' = <<>>
    /\ items' = <<>>
    /\ position' = 0
    /\ failed' = FALSE
    /\ stale' = ~AllOff
    /\ earlier' = (earlier \/ states # <<>>)
    /\ pc' = "get_items"
    /\ UNCHANGED <<BLINKT, module, strip, exit, sig, interruptedAt, frame>>

\* DockerHelper.monitor, line 65: the listing call returns or raises
GetItems ==
    /\ pc = "get_items"
    /\ \E outcome \in ClientOutcomes(module) :
          LET r == get_items(module, outcome) IN
          /\ failed' = (outcome.exc # "none")
          /\ IF r.exc = "none"
             THEN Returned(r.list)
             ELSE Uncaught(r.exc) /\ UNCHANGED <<items, position>>
    /\ UNCHANGED <<BLINKT, module, strip, states, sig, interruptedAt, stale,
                   frame, earlier>>

\* DockerHelper.monitor, line 68: BlinktHelper.reset_lights()
ResetLights ==
    /\ pc = "reset"
    /\ strip' = reset_lights(BLINKT, strip)
    /\ pc' = "render"
    /\ frame' = <<>>
    /\ UNCHANGED <<BLINKT, module, items, position, states, exit, sig,
                   interruptedAt, failed, stale, earlier>>

\* a loop that takes the position from the length of self.states
RenderItem_history ==
    /\ pc = "render"
    /\ position < Len(items)
    /\ LET status == get_status(module, items[position + 1]) IN
       /\ states' = Append(states, status)
       /\ IF set_light_raises(BLINKT, status.status)
          THEN Uncaught("KeyError") /\ UNCHANGED <<strip, position>>
          ELSE /\ strip' = set_light(BLINKT, strip, Len(states), status.status)
               /\ position' = position + 1
               /\ UNCHANGED <<pc, exit>>
    /\ UNCHANGED <<BLINKT, module, items, sig, interruptedAt, failed, stale,
                   frame, earlier>>

\* a loop that lights position i from the i-th record of self.states
RenderItem_fromstates ==
    /\ pc = "render"
    /\ position < Len(items)
    /\ LET status == get_status(module, items[position + 1]) IN
       /\ states' = Append(states, status)
       /\ IF set_light_raises(BLINKT, states'[position + 1].status)
          THEN Uncaught("KeyError") /\ UNCHANGED <<strip, position>>
          ELSE /\ strip' = set_light(BLINKT, strip, position, states'[position + 1].status)
               /\ position' = position + 1
               /\ UNCHANGED <<pc, exit>>
    /\ UNCHANGED <<BLINKT, module, items, sig, interruptedAt, failed, stale,
                   frame, earlier>>

\* DockerHelper.monitor, lines 70-74: one turn of the loop over items
RenderItem ==
    /\ pc = "render"
    /\ position < Len(items)
    /\ LET status == get_status(module, items[position + 1]) IN
       /\ states' = Append(states, status)
       /\ IF set_light_raises(BLINKT, status.status)
          THEN Uncaught("KeyError") /\ UNCHANGED <<strip, position>>
          ELSE /\ strip' = set_light(BLINKT, strip, position, status.status)
               /\ position' = position + 1
               /\ UNCHANGED <<pc, exit>>
    /\ UNCHANGED <<BLINKT, module, items, sig, interruptedAt, failed, stale,
                   frame, earlier>>

\* DockerHelper.monitor, line 76, HealthManager.monitor, line 143, and main,
\* line 165: return self.states, print it, time.sleep(args.delay)
MonitorReturn ==
    /\ pc = "render"
    /\ position = Len(items)
    /\ pc' = "sleep"
    /\ frame' = strip
    /\ UNCHANGED <<BLINKT, module, strip, items, position, states, exit, sig,
                   interruptedAt, failed, stale, earlier>>

\* a main that polls once: after the sleep it returns and the process ends
SleepDone_once ==
    /\ pc = "sleep"
    /\ pc' = "exited"
    /\ exit' = <<0>>
    /\ UNCHANGED <<BLINKT, module, strip, items, position, states, sig,
                   interruptedAt, failed, stale, frame, earlier>>

\* main, lines 165-166: time.sleep(args.delay) returns, del watcher
SleepDone ==
    /\ pc = "sleep"
    /\ pc' = "loop"
    /\ UNCHANGED <<BLINKT, module, strip, items, position, states, exit, sig,
                   interruptedAt, failed, stale, frame, earlier>>

\* terminate without the sys.exit(0): the handler returns and the main thread
\* carries on where it was
terminate_noexit(s) ==
    /\ strip' = reset_lights(BLINKT, strip)
    /\ UNCHANGED <<pc, exit, items, position>>

\* terminate, lines 168-172, run for signal s while the main thread is at pc.
\* sys.exit(0) raises SystemExit at the interrupted statement: inside the
\* listing call it passes through get_items like any exception the call raises.
terminate(s) ==
    /\ strip' = reset_lights(BLINKT, strip)
    /\ IF pc = "get_items"
       THEN LET r == get_items(module, Raises("SystemExit")) IN
            IF r.exc = "none"
            THEN Returned(r.list)
            ELSE Uncaught(r.exc) /\ UNCHANGED <<items, position>>
       ELSE Uncaught("SystemExit") /\ UNCHANGED <<items, position>>

\* A signal is delivered to the running process.
Signal ==
    /\ pc \in Alive
    /\ \E s \in Signals :
          /\ sig' = s
          /\ interruptedAt' = pc
          /\ IF Handlers[s] = "terminate"
             THEN terminate(s)
             ELSE \* the default disposition kills the process
                  /\ pc' = "exited"
                  /\ exit' = <<143>>
                  /\ UNCHANGED <<strip, items, position>>
    /\ UNCHANGED <<BLINKT, module, states, failed, stale, frame, earlier>>

Next ==
    \/ Initialize
    \/ SettleDone
    \/ StartCycle
    \/ GetItems
    \/ ResetLights
    \/ RenderItem
    \/ MonitorReturn
    \/ SleepDone
    \/ Signal

Spec == Init /\ [][Next]_vars

\* The steps the interpreter takes on its own: every one of them is taken once
\* it is possible (sleeps end, the loops advance).  The listing call may hang
\* and a signal may never come, so neither is assumed.
Progress ==
    \/ Initialize
    \/ SettleDone
    \/ StartCycle
    \/ ResetLights
    \/ RenderItem
    \/ MonitorReturn
    \/ SleepDone

FairSpec == Spec /\ WF_vars(Progress)

(* ------------------- one helper, monitor() called repeatedly ---------- *)
\* DockerHelper.monitor, lines 68-74, as a function of the strip and of the
\* records rendered: the clear, then set_light per record from position 0.
RECURSIVE RenderFrom(_, _, _, _)
RenderFrom(hw, s, recs, position_) ==
    IF position_ = Len(recs) THEN s
    ELSE RenderFrom(hw, set_light(hw, s, position_, recs[position_ + 1].status),
                    recs, position_ + 1)

RenderPass(hw, s, recs) == RenderFrom(hw, reset_lights(hw, s), recs, 0)

\* what the strip may show before the first call
PriorStrips == [Positions -> {Off, colors.initialize, colors.exited}]

\* a helper as __init__ leaves it (self.states = []), not called yet
HelperInit ==
    /\ pc = "loop"
    /\ BLINKT \in BOOLEAN
    /\ module \in Modules
    /\ strip \in (IF BLINKT THEN PriorStrips ELSE {[p \in Positions |-> Off]})
    /\ items = <<>>
    /\ position = 0
    /\ states = <<>>
    /\ exit = <<>>
    /\ sig = "none"
    /\ interruptedAt = "none"
    /\ failed = FALSE
    /\ stale = FALSE
    /\ frame = strip
    /\ earlier = FALSE

\* DockerHelper.monitor is called on the helper, for the first time or again:
\* self.states keeps what earlier calls appended
CallMonitor ==
    /\ pc \in {"loop", "sleep"}
    /\ Len(states) <= MaxHistory
    /\ items' = <<>>
    /\ position' = 0
    /\ failed' = FALSE
    /\ stale' = ~AllOff
    /\ earlier' = (earlier \/ states # <<>>)
    /\ pc' = "get_items"
    /\ UNCHANGED <<BLINKT, module, strip, states, exit, sig, interruptedAt, frame>>

HelperNext ==
    \/ CallMonitor
    \/ GetItems
    \/ ResetLights
    \/ RenderItem
    \/ MonitorReturn

HelperSpec == HelperInit /\ [][HelperNext]_vars

(* ------------------------------ properties ---------------------------- *)
\* the number of tasks of a service whose state is exactly 'running'
RunningTasks(item) == Cardinality({i \in DOMAIN item.tasks : item.tasks[i] = "running"})

\* the highest record index j < M (counted from 0) with j mod NumPixels = p
LastWriter(p, M) ==
    CHOOSE j \in 0..(M - 1) :
        /\ j % NumPixels = p
        /\ \A k \in 0..(M - 1) : k % NumPixels = p => k <= j

\* C1: once a signal has been delivered, whatever the main thread was doing,
\* the strip is cleared, the process has exited and nothing runs afterwards
\* (stated on the state right after the handler and on every later state).
C1_InterruptAlwaysExits ==
    interruptedAt # "none" => (pc = "exited" /\ AllOff)

\* C2: a signal that arrives during the sleep between two cycles leads
\* straight to the cleared strip and the exit; no other poll cycle starts.
C2_SleepInterruptTerminates ==
    interruptedAt = "sleep" => (pc = "exited" /\ exit = <<0>> /\ AllOff)

C2_Witness ==
    /\ interruptedAt = "sleep" /\ pc = "exited"
    /\ BLINKT /\ states # <<>>

\* C3: whichever of SIGINT and SIGTERM ended the process, the exit code is 0
\* and every position of the strip is off.
C3_SignalExitIsClean ==
    \A s \in Signals : (sig = s /\ pc = "exited") => (exit = <<0>> /\ AllOff)

C3_Witness ==
    /\ sig = "SIGTERM" /\ pc = "exited" /\ exit = <<0>>
    /\ BLINKT /\ states # <<>>

\* C4: a service is classified running exactly when the number of its tasks
\* in state 'running' equals its declared replica count, and warning otherwise.
C4_ServiceRunningIffExact ==
    module = "services" =>
        \A k \in 1..Len(states) :
            /\ states[k].status \in {"running", "warning"}
            /\ states[k].status = "running" <=> RunningTasks(items[k]) = items[k].replicas

C4_Witness ==
    /\ module = "services"
    /\ \E k \in 1..Len(states) :
          /\ RunningTasks(items[k]) > items[k].replicas
          /\ items[k].replicas > 0
          /\ states[k].status = "warning"

\* C5: every record of a MonitorResult that monitor() returns has a status
\* that is a key of the palette.
C5_ReturnedStatesInPalette ==
    pc = "sleep" => \A k \in 1..Len(states) : states[k].status \in DOMAIN colors

\* C6: after a render pass over more records than the strip has positions,
\* each position shows the palette entry of the last record written to it.
C6_WrapLastWriterWins ==
    (pc = "sleep" /\ BLINKT /\ Len(states) > NumPixels) =>
        \A p \in Positions :
            strip[p] = colors[states[LastWriter(p, Len(states)) + 1].status]

C6_Witness ==
    /\ pc = "sleep" /\ BLINKT /\ Len(states) > NumPixels
    /\ strip[0] # colors[states[1].status]
    /\ strip[0] = colors[states[NumPixels + 1].status]

\* C7: after a poll cycle over no more records than the strip has positions,
\* position i shows the palette entry of the i-th item retrieved and every
\* position past the last record is off, whatever was shown before.
C7_ClearThenRenderInOrder ==
    (pc = "sleep" /\ BLINKT /\ Len(items) <= NumPixels) =>
        /\ Len(states) = Len(items)
        /\ \A i \in 0..(Len(items) - 1) :
              /\ states[i + 1] = get_status(module, items[i + 1])
              /\ strip[i] = colors[states[i + 1].status]
        /\ \A p \in Positions : p >= Len(items) => strip[p] = Off

C7_Witness ==
    /\ pc = "sleep" /\ BLINKT /\ stale
    /\ Len(items) > 0 /\ Len(items) < NumPixels
    /\ strip[0] # Off

\* C8: a poll cycle with an empty result ends with every position off.
C8_EmptyResultAllOff ==
    (pc = "sleep" /\ states = <<>>) => AllOff

C8_Witness ==
    /\ pc = "sleep" /\ states = <<>>
    /\ BLINKT /\ stale /\ failed /\ sig = "none"

\* C9: when the container listing raises, the cycle goes on with an empty
\* result, the process does not crash, and another poll cycle reaches its
\* listing call (unless a signal ends the process first).
C9_ContainerOutageRecovered ==
    /\ []((module = "containers" /\ failed) =>
            (pc # "crashed" /\ items = <<>> /\ states = <<>>))
    /\ (module = "containers" /\ failed) ~>
            ((pc = "get_items" /\ ~failed) \/ pc = "exited")

C9_Witness ==
    /\ module = "containers" /\ failed
    /\ pc = "sleep" /\ sig = "none"

\* C10: when the node or service listing raises, the exception ends the
\* process, and nothing runs after that.
C10_NodeServiceOutagePropagates ==
    /\ []((module \in {"nodes", "services"} /\ failed) =>
            (pc = "crashed" /\ exit = <<1>>))
    /\ [][pc = "crashed" => pc' = "crashed"]_vars

C10_Witness ==
    /\ module = "nodes" /\ failed
    /\ pc = "crashed" /\ exit = <<1>>

\* C11: startup sets every position to the initialize palette entry, nothing
\* is retrieved or rendered before the settle delay has elapsed, and the
\* process goes from initialising to poll cycles to its end, never back.
C11_StartupOrder ==
    /\ [](pc \in {"main", "settle"} =>
            (items = <<>> /\ states = <<>> /\ ~failed /\ ~earlier))
    /\ []((pc = "settle" /\ BLINKT) => \A p \in Positions : strip[p] = colors.initialize)
    /\ [][ /\ pc = "main" => pc' \in {"settle", "exited"}
           /\ pc = "settle" => pc' \in {"loop", "exited"}
           /\ pc' = "settle" => (pc = "main" /\ strip' = set_all(BLINKT, strip, "initialize"))
           /\ pc' = "loop" => pc \in {"settle", "sleep"}
           /\ pc' = "get_items" => pc = "loop"
           /\ pc' # "main"
           /\ pc \notin {"exited", "crashed"} ]_vars

C11_Witness ==
    /\ pc = "get_items" /\ BLINKT /\ ~earlier /\ sig = "none"
    /\ \A p \in Positions : strip[p] = colors.initialize

\* C12: an item whose status has no palette entry makes the cycle fail at
\* that item (it is not passed over and nothing after it is processed), and
\* the failure does not end the process, with or without a board.
C12_UnmappedAbortsCycleOnly ==
    \A k \in 1..Len(states) :
        states[k].status \notin DOMAIN colors =>
            (pc # "crashed" /\ position < k)

\* C13: in the poll loop the result of a cycle holds the records of the items
\* retrieved in that cycle, one each and in retrieval order, and nothing
\* else: it is never longer than the list retrieved, however many cycles ran.
C13_ResultIsThisCycleOnly ==
    /\ Len(states) <= Len(items)
    /\ \A k \in 1..Len(states) : states[k] = get_status(module, items[k])
    /\ pc = "sleep" => Len(states) = Len(items)

C13_Witness ==
    /\ pc = "sleep" /\ earlier /\ sig = "none"
    /\ Len(states) = 1

\* the records the call that has just returned appended to self.states
ThisCall == SubSeq(states, Len(states) - Len(items) + 1, Len(states))

\* C14: a second render pass over the same records leaves the strip as the
\* first pass left it, whatever the records and whatever the strip showed.
C14_RenderIdempotent ==
    pc = "sleep" =>
        /\ RenderPass(BLINKT, strip, ThisCall) = strip
        /\ \A s0 \in (IF BLINKT THEN PriorStrips ELSE {strip}) :
              /\ RenderPass(BLINKT, s0, ThisCall) = strip
              /\ RenderPass(BLINKT, RenderPass(BLINKT, s0, ThisCall), ThisCall)
                    = RenderPass(BLINKT, s0, ThisCall)

C14_Witness ==
    /\ pc = "sleep" /\ BLINKT /\ earlier
    /\ Len(items) > NumPixels
    /\ strip[0] # strip[1]

\* the records of a list of items, in order
Records(m, l) == [k \in 1..Len(l) |-> get_status(m, l[k])]

\* the frame a list of records stands for: each position shows the last
\* record written to it, and is off when none was
ExpectedFrame(recs) ==
    [p \in Positions |->
        IF \E j \in 0..(Len(recs) - 1) : j % NumPixels = p
        THEN colors[recs[LastWriter(p, Len(recs)) + 1].status]
        ELSE Off]

IsPrefix(s, u) == Len(s) <= Len(u) /\ SubSeq(u, 1, Len(s)) = s

\* C17: when monitor() is called again on the same helper, the strip shows
\* the items of that call only, while the list it returns holds the records
\* of every call so far, in call order.
C17_HistoryIsNotRendered ==
    /\ []((pc = "sleep" /\ BLINKT) => strip = ExpectedFrame(Records(module, items)))
    /\ [](pc = "sleep" =>
            (Len(states) >= Len(items) /\ ThisCall = Records(module, items)))
    /\ [][IsPrefix(states, states')]_vars

C17_Witness ==
    /\ pc = "sleep" /\ BLINKT
    /\ Len(items) > 0 /\ Len(states) > Len(items)
    /\ strip[0] # colors[states[1].status]

\* the situations in which a run with the board attached ends by an exception
EndsByException ==
    \/ module # "containers" /\ failed
    \/ \E k \in 1..Len(states) : states[k].status \notin DOMAIN colors

\* C15: without a board the sink operations change nothing and never raise,
\* and the poll loop runs as it does with a board: the process ends by an
\* exception in the same situations with and without one.
C15_NoSinkRunsAsWithSink ==
    /\ ~BLINKT => AllOff
    /\ pc = "crashed" <=> EndsByException

\* C16: the loop never ends on its own.  Every sleep is followed by the
\* listing call of another cycle and, once the listing call has returned,
\* every cycle by its sleep, unless a signal or an exception ends the
\* process; the process ends only by a signal or an exception, and the class
\* polled never changes.
C16_LoopRepeats ==
    /\ (pc = "sleep") ~> (pc = "get_items" \/ pc = "exited")
    /\ (pc = "reset") ~> (pc \in {"sleep", "exited", "crashed"})
    /\ [](pc = "crashed" => EndsByException)
    /\ [](pc = "exited" => interruptedAt # "none")
    /\ [][module' = module]_vars

C16_Witness ==
    /\ pc = "get_items" /\ earlier
    /\ sig = "none" /\ ~failed

C19_RenderPassIntermediate ==
    (pc = "render" /\ BLINKT) =>
        \A p \in Positions :
            \/ strip[p] = Off
            \/ \E j \in 0..(position - 1) :
                  /\ j % NumPixels = p
                  /\ strip[p] = colors[get_status(module, items[j + 1]).status]

C19_Witness ==
    /\ pc = "render" /\ BLINKT /\ stale
    /\ position > 0 /\ position < Len(items)
    /\ \E p \in Positions : strip[p] = Off
    /\ \E p \in Positions : strip[p] # Off

====
